---- MODULE Spec2Model ----
(***************************************************************************)
(* The IELTS answer-equivalence checker (src/unnamed/part_001) as a state  *)
(* machine: one call of checkAnswer on inputs drawn from bounded sets.     *)
(*                                                                         *)
(* A string is a sequence of characters.  An ASCII character is the        *)
(* one-character TLA+ string; a character outside ASCII is written by its  *)
(* code point ("U+00A3").  Str("5 km") is the sequence of the characters   *)
(* of an ASCII literal.                                                    *)
(***************************************************************************)
EXTENDS Integers, Sequences, FiniteSets, TLC

VARIABLES userAnswer, correctAnswer, questionType, result, pc

\* the bulk-generation job (src/unnamed/part_000): the request and its
\* response, the locals of processGenerationJob, the row of
\* bulk_generation_jobs, the rows of generated_test_audio, and what the job
\* has done so far (the status values it wrote, whether a collaborator
\* failed in the running iteration)
VARIABLES jobPc, response, module, quantity, testIndex, successCount,
          failureCount, errorLog, content, audioUrl, sampleAudioUrl,
          job, generated_test_audio, statusWrites, collaboratorsOk

\* one table cell of ListeningTableCompletion.tsx: the stored answer of its
\* question, the number of its blanks, and the last edit
VARIABLES storedAnswer, blankCount, editedBlank, editedText

checkerVars == <<userAnswer, correctAnswer, questionType, result, pc>>
jobVars ==
  <<jobPc, response, module, quantity, testIndex, successCount, failureCount,
    errorLog, content, audioUrl, sampleAudioUrl, job, generated_test_audio,
    statusWrites, collaboratorsOk>>
blankVars == <<storedAnswer, blankCount, editedBlank, editedText>>

vars == <<checkerVars, jobVars, blankVars>>

(***************************************************************************)
(* Characters and character classes                                        *)
(***************************************************************************)
Str(lit) == [i \in 1..Len(lit) |-> SubSeq(lit, i, i)]

POUND == "U+00A3"
EURO == "U+20AC"
YEN == "U+00A5"
LSQUO == "U+2018"
RSQUO == "U+2019"
LDQUO == "U+201C"
RDQUO == "U+201D"

LowerLetters ==
  {"a", "b", "c", "d", "e", "f", "g", "h", "i", "j", "k", "l", "m",
   "n", "o", "p", "q", "r", "s", "t", "u", "v", "w", "x", "y", "z"}

UpperLetters ==
  {"A", "B", "C", "D", "E", "F", "G", "H", "I", "J", "K", "L", "M",
   "N", "O", "P", "Q", "R", "S", "T", "U", "V", "W", "X", "Y", "Z"}

\* \d
Digits == {"0", "1", "2", "3", "4", "5", "6", "7", "8", "9"}

\* \w
WordChars == LowerLetters \cup UpperLetters \cup Digits \cup {"_"}

\* \s (the white space the inputs of the model can hold)
WhiteSpace == {" ", "\t", "\n"}

UpperSeq == Str("ABCDEFGHIJKLMNOPQRSTUVWXYZ")
LowerSeq == Str("abcdefghijklmnopqrstuvwxyz")

LowerChar(c) ==
  IF c \in UpperLetters
  THEN LowerSeq[CHOOSE i \in 1..26 : UpperSeq[i] = c]
  ELSE c

\* String.prototype.toLowerCase
toLowerCase(s) == [i \in 1..Len(s) |-> LowerChar(s[i])]

\* String.prototype.trim
trim(s) ==
  LET keep == {i \in 1..Len(s) : s[i] \notin WhiteSpace}
  IN  IF keep = {} THEN <<>>
      ELSE SubSeq(s, CHOOSE i \in keep : \A j \in keep : i <= j,
                     CHOOSE i \in keep : \A j \in keep : i >= j)

SetMax(S) == CHOOSE x \in S : \A y \in S : y <= x
SetMin(S) == CHOOSE x \in S : \A y \in S : x <= y

(***************************************************************************)
(* Regular expressions.  A pattern is a record: one character of a class,  *)
(* a sequence, an alternation, or a repetition lo..hi (hi = -1: no upper   *)
(* limit).  Ends(re, s, i) is the set of positions j such that re matches  *)
(* s[i..j-1].                                                              *)
(***************************************************************************)
Cls(S) == [t |-> "cls", set |-> S]
Cat(rs) == [t |-> "cat", rs |-> rs]
Alt(rs) == [t |-> "alt", rs |-> rs]
Rep(r, lo, hi) == [t |-> "rep", r |-> r, lo |-> lo, hi |-> hi]
Chr(c) == Cls({c})
Lit(lit) == Cat([i \in 1..Len(lit) |-> Chr(SubSeq(lit, i, i))])
Opt(r) == Rep(r, 0, 1)
Star(r) == Rep(r, 0, -1)
Plus(r) == Rep(r, 1, -1)

RECURSIVE Ends(_, _, _)
RECURSIVE EndsCat(_, _, _, _)
RECURSIVE EndsRep(_, _, _, _, _, _)

Ends(re, s, i) ==
  CASE re.t = "cls" -> IF i <= Len(s) /\ s[i] \in re.set THEN {i + 1} ELSE {}
    [] re.t = "cat" -> EndsCat(re.rs, 1, s, {i})
    [] re.t = "alt" -> UNION {Ends(re.rs[k], s, i) : k \in DOMAIN re.rs}
    [] re.t = "rep" -> EndsRep(re.r, re.lo, re.hi, 0, s, {i})

\* the positions reached from the positions `from` by rs[k], rs[k+1], ...
EndsCat(rs, k, s, from) ==
  IF k > Len(rs) \/ from = {} THEN from
  ELSE EndsCat(rs, k + 1, s, UNION {Ends(rs[k], s, i) : i \in from})

\* the positions reached from `from` (after n iterations) by lo..hi iterations
EndsRep(r, lo, hi, n, s, from) ==
  IF from = {} \/ (hi >= 0 /\ n >= hi) THEN (IF n >= lo THEN from ELSE {})
  ELSE LET next == UNION {Ends(r, s, i) \ {i} : i \in from}
       IN  (IF n >= lo THEN from ELSE {}) \cup EndsRep(r, lo, hi, n + 1, s, next)

\* ^re$
FullMatch(re, s) == (Len(s) + 1) \in Ends(re, s, 1)

\* The replacement of a match m: a fixed string, or the last character of the
\* match (the group (\d) the pattern ends with) n times ('$1$1', '$1$1$1').
RepLit(v) == [k |-> "lit", v |-> v]
RepLast(n) == [k |-> "last", n |-> n]

Subst(rep, m) ==
  IF rep.k = "lit" THEN rep.v ELSE [i \in 1..rep.n |-> m[Len(m)]]

\* String.prototype.replace(/re/g, rep): leftmost matches, each the longest
\* (every quantifier of the patterns used is greedy); ci is the flag i.
RECURSIVE ReplaceFrom(_, _, _, _, _)
ReplaceFrom(s, t, re, rep, i) ==
  IF i > Len(s) THEN <<>>
  ELSE LET E == Ends(re, t, i) \ {i}
       IN  IF E = {} THEN <<s[i]>> \o ReplaceFrom(s, t, re, rep, i + 1)
           ELSE Subst(rep, SubSeq(s, i, SetMax(E) - 1))
                  \o ReplaceFrom(s, t, re, rep, SetMax(E))

ReplaceAll(s, re, rep, ci) ==
  ReplaceFrom(s, IF ci THEN toLowerCase(s) ELSE s, re, rep, 1)

\* String.prototype.replace(/^re/, ''): no flag g, anchored at the start
RemovePrefix(s, re) ==
  LET E == Ends(re, s, 1)
  IN  IF E = {} THEN s ELSE SubSeq(s, SetMax(E), Len(s))

\* String.prototype.replace(/re$/, ''): the leftmost start of a match
\* that ends at the end of the string
RemoveSuffix(s, re) ==
  LET St == {i \in 1..Len(s) : (Len(s) + 1) \in Ends(re, s, i)}
  IN  IF St = {} THEN s ELSE SubSeq(s, 1, SetMin(St) - 1)

\* String.prototype.split(d) for a one-character delimiter d
RECURSIVE split(_, _)
split(s, d) ==
  LET at == {i \in 1..Len(s) : s[i] = d}
  IN  IF at = {} THEN <<s>>
      ELSE <<SubSeq(s, 1, SetMin(at) - 1)>>
             \o split(SubSeq(s, SetMin(at) + 1, Len(s)), d)

(***************************************************************************)
(* Normalizer                                                              *)
(***************************************************************************)
\* The two character classes of lines 135 and 136 hold, in the source file,
\* the ASCII apostrophe and the ASCII double quote.
normalizeString(str) ==
  LET lowered == trim(toLowerCase(str))
      spaced == ReplaceAll(lowered, Plus(Cls(WhiteSpace)), RepLit(<<" ">>), FALSE)
      apos == ReplaceAll(spaced, Cls({"'"}), RepLit(<<"'">>), FALSE)
  IN  ReplaceAll(apos, Cls({"\""}), RepLit(<<"\"">>), FALSE)

removeAllSpaces(str) ==
  ReplaceAll(str, Plus(Cls(WhiteSpace)), RepLit(<<>>), FALSE)

(***************************************************************************)
(* Equivalence tables: each row is the set of spellings of one entry       *)
(***************************************************************************)
Words(t) == {Str(t[i]) : i \in DOMAIN t}

NUMBER_WORDS ==
  { Words(<<"zero", "o", "oh", "0">>),
    Words(<<"one", "1">>),
    Words(<<"two", "2">>),
    Words(<<"three", "3">>),
    Words(<<"four", "4">>),
    Words(<<"five", "5">>),
    Words(<<"six", "6">>),
    Words(<<"seven", "7">>),
    Words(<<"eight", "8">>),
    Words(<<"nine", "9">>),
    Words(<<"ten", "10">>),
    Words(<<"eleven", "11">>),
    Words(<<"twelve", "12">>),
    Words(<<"thirteen", "13">>),
    Words(<<"fourteen", "14">>),
    Words(<<"fifteen", "15">>),
    Words(<<"sixteen", "16">>),
    Words(<<"seventeen", "17">>),
    Words(<<"eighteen", "18">>),
    Words(<<"nineteen", "19">>),
    Words(<<"twenty", "20">>),
    Words(<<"thirty", "30">>),
    Words(<<"forty", "40">>),
    Words(<<"fifty", "50">>),
    Words(<<"sixty", "60">>),
    Words(<<"seventy", "70">>),
    Words(<<"eighty", "80">>),
    Words(<<"ninety", "90">>),
    Words(<<"hundred", "one hundred", "100">>),
    Words(<<"thousand", "one thousand", "1000", "1,000">>),
    Words(<<"million", "one million", "1000000", "1,000,000">>) }

MONTH_VARIATIONS ==
  { Words(<<"jan", "january", "01", "1">>),
    Words(<<"feb", "february", "02", "2">>),
    Words(<<"mar", "march", "03", "3">>),
    Words(<<"apr", "april", "04", "4">>),
    Words(<<"may", "05", "5">>),
    Words(<<"jun", "june", "06", "6">>),
    Words(<<"jul", "july", "07", "7">>),
    Words(<<"aug", "august", "08", "8">>),
    Words(<<"sep", "sept", "september", "09", "9">>),
    Words(<<"oct", "october", "10">>),
    Words(<<"nov", "november", "11">>),
    Words(<<"dec", "december", "12">>) }

MEASUREMENT_VARIATIONS ==
  { Words(<<"km", "kms", "kilometre", "kilometres", "kilometer", "kilometers">>),
    Words(<<"m", "metre", "metres", "meter", "meters">>),
    Words(<<"cm", "centimetre", "centimetres", "centimeter", "centimeters">>),
    Words(<<"mm", "millimetre", "millimetres", "millimeter", "millimeters">>),
    Words(<<"kg", "kgs", "kilogram", "kilograms", "kilo", "kilos">>),
    Words(<<"g", "gram", "grams">>),
    Words(<<"mg", "milligram", "milligrams">>),
    Words(<<"l", "litre", "litres", "liter", "liters">>),
    Words(<<"ml", "millilitre", "millilitres", "milliliter", "milliliters">>),
    Words(<<"ft", "foot", "feet">>),
    Words(<<"in", "inch", "inches">>),
    Words(<<"mi", "mile", "miles">>),
    Words(<<"lb", "lbs", "pound", "pounds">>),
    Words(<<"oz", "ounce", "ounces">>) }

CURRENCY_VARIATIONS ==
  { {<<"$">>} \cup Words(<<"dollar", "dollars", "usd">>),
    {<<POUND>>} \cup Words(<<"pound", "pounds", "gbp">>),
    {<<EURO>>} \cup Words(<<"euro", "euros", "eur">>),
    {<<YEN>>} \cup Words(<<"yen", "jpy">>) }

(***************************************************************************)
(* Category matchers                                                       *)
(***************************************************************************)
SpacePlus == Plus(Cls(WhiteSpace))
SpaceStar == Star(Cls(WhiteSpace))
OrdinalSuffix == Opt(Alt(<<Lit("st"), Lit("nd"), Lit("rd"), Lit("th")>>))
Day == Rep(Cls(Digits), 1, 2)
DateSep == Cls({"/", "-"})

\* the four patterns of datePatterns, in the order of the source
datePatterns ==
  << [ci |-> TRUE,
      re |-> Cat(<<Plus(Cls(WordChars)), SpacePlus, Day, OrdinalSuffix>>)],
     [ci |-> TRUE,
      re |-> Cat(<<Day, OrdinalSuffix, SpacePlus,
                   Opt(Cat(<<Lit("of"), SpacePlus>>)), Plus(Cls(WordChars))>>)],
     [ci |-> FALSE,
      re |-> Cat(<<Day, DateSep, Day>>)],
     [ci |-> FALSE,
      re |-> Cat(<<Rep(Cls(Digits), 4, 4), DateSep, Day, DateSep, Day>>)] >>

\* s.match(datePatterns[k])
MatchesDatePattern(k, s) ==
  FullMatch(datePatterns[k].re, IF datePatterns[k].ci THEN toLowerCase(s) ELSE s)

\* the operands compared as well: the same pattern and the same text
matchDate_SameValue(userAnswer_, correctAnswer_) ==
  LET user == normalizeString(userAnswer_)
      correct == normalizeString(correctAnswer_)
  IN  /\ user = correct
      /\ \E k \in DOMAIN datePatterns :
           MatchesDatePattern(k, user) /\ MatchesDatePattern(k, correct)

matchDate(userAnswer_, correctAnswer_) ==
  LET user == normalizeString(userAnswer_)
      correct == normalizeString(correctAnswer_)
  IN  \E k \in DOMAIN datePatterns :
        MatchesDatePattern(k, user) /\ MatchesDatePattern(k, correct)

normalizeAmPm(s) ==
  LET am == ReplaceAll(s, Cat(<<Chr("a"), Opt(Chr(".")), Chr("m"), Opt(Chr("."))>>),
                       RepLit(Str("am")), TRUE)
      pm == ReplaceAll(am, Cat(<<Chr("p"), Opt(Chr(".")), Chr("m"), Opt(Chr("."))>>),
                       RepLit(Str("pm")), TRUE)
  IN  ReplaceAll(pm, Cat(<<Chr("o"), Opt(Chr("'")), Lit("clock")>>), RepLit(<<>>), TRUE)

\* removeAllSpaces(normalizeString(s)).replace(/[.:]/g, '')
TimeDigits(s) ==
  ReplaceAll(removeAllSpaces(normalizeString(s)), Cls({".", ":"}), RepLit(<<>>), FALSE)

\* the periods and colons left in place: only the spaces are removed
matchTime_KeepSeparators(userAnswer_, correctAnswer_) ==
  normalizeAmPm(removeAllSpaces(normalizeString(userAnswer_)))
    = normalizeAmPm(removeAllSpaces(normalizeString(correctAnswer_)))

matchTime(userAnswer_, correctAnswer_) ==
  normalizeAmPm(TimeDigits(userAnswer_)) = normalizeAmPm(TimeDigits(correctAnswer_))

normalizeNum(s) ==
  trim(ReplaceAll(ReplaceAll(toLowerCase(s), Chr(","), RepLit(<<>>), FALSE),
                  SpacePlus, RepLit(<<>>), FALSE))

\* the two operands looked up in the whole table instead of row by row
matchNumber_AnyRow(userAnswer_, correctAnswer_) ==
  LET user == normalizeNum(userAnswer_)
      correct == normalizeNum(correctAnswer_)
  IN  \/ user = correct
      \/ user \in UNION NUMBER_WORDS /\ correct \in UNION NUMBER_WORDS

matchNumber(userAnswer_, correctAnswer_) ==
  LET user == normalizeNum(userAnswer_)
      correct == normalizeNum(correctAnswer_)
  IN  \/ user = correct
      \/ \E words \in NUMBER_WORDS : user \in words /\ correct \in words

NumberChars == Digits \cup {",", "."}

removeCommas(s) == ReplaceAll(s, Chr(","), RepLit(<<>>), FALSE)

\* s.match(/^([\d,.]+)\s*(\w+)$/): the number is the longest prefix of
\* digits, commas and periods that leaves a unit of at least one word
\* character (a digit is a word character too); no match: matched is FALSE
measurePattern(s) ==
  LET rest == Cat(<<SpaceStar, Plus(Cls(WordChars))>>)
      cuts == {k \in Ends(Plus(Cls(NumberChars)), s, 1) :
                 (Len(s) + 1) \in Ends(rest, s, k)}
  IN  IF cuts = {} THEN [matched |-> FALSE, num |-> <<>>, unit |-> <<>>]
      ELSE [matched |-> TRUE,
            num |-> SubSeq(s, 1, SetMax(cuts) - 1),
            unit |-> SubSeq(s, SetMax(Ends(SpaceStar, s, SetMax(cuts))), Len(s))]

\* the units compared as written instead of by the row of the table
matchMeasurement_SameUnit(userAnswer_, correctAnswer_) ==
  LET userMatch == measurePattern(normalizeString(userAnswer_))
      correctMatch == measurePattern(normalizeString(correctAnswer_))
      numsMatch == removeCommas(userMatch.num) = removeCommas(correctMatch.num)
  IN  /\ userMatch.matched
      /\ correctMatch.matched
      /\ toLowerCase(userMatch.unit) = toLowerCase(correctMatch.unit)
      /\ numsMatch

matchMeasurement(userAnswer_, correctAnswer_) ==
  LET userMatch == measurePattern(normalizeString(userAnswer_))
      correctMatch == measurePattern(normalizeString(correctAnswer_))
      numsMatch == removeCommas(userMatch.num) = removeCommas(correctMatch.num)
  IN  /\ userMatch.matched
      /\ correctMatch.matched
      /\ \E variations \in MEASUREMENT_VARIATIONS :
           /\ toLowerCase(userMatch.unit) \in variations
           /\ toLowerCase(correctMatch.unit) \in variations
      /\ numsMatch

CurrencySymbols == {POUND, "$", EURO, YEN}

\* s.match(/^([£$€¥]?)\s*([\d,.]+)\s*([a-z]*)?$/): the classes of the three
\* groups are disjoint, so a match splits s in one way only.  A group that
\* matched nothing is the empty string (no spelling of the table is empty).
currencyPattern(s) ==
  LET re == Cat(<<Opt(Cls(CurrencySymbols)), SpaceStar, Plus(Cls(NumberChars)),
                  SpaceStar, Opt(Star(Cls(LowerLetters)))>>)
      symEnd == SetMax(Ends(Opt(Cls(CurrencySymbols)), s, 1))
      amtStart == SetMax(Ends(SpaceStar, s, symEnd))
      amtEnd == SetMax(Ends(Star(Cls(NumberChars)), s, amtStart))
      wordStart == SetMax(Ends(SpaceStar, s, amtEnd))
  IN  IF ~FullMatch(re, s)
      THEN [matched |-> FALSE, symbol |-> <<>>, amount |-> <<>>, word |-> <<>>]
      ELSE [matched |-> TRUE,
            symbol |-> SubSeq(s, 1, symEnd - 1),
            amount |-> SubSeq(s, amtStart, amtEnd - 1),
            word |-> SubSeq(s, wordStart, Len(s))]

\* the trailing word left out of the comparison: only the symbols count
matchCurrency_SymbolOnly(userAnswer_, correctAnswer_) ==
  LET userMatch == currencyPattern(normalizeString(userAnswer_))
      correctMatch == currencyPattern(normalizeString(correctAnswer_))
  IN  /\ userMatch.matched
      /\ correctMatch.matched
      /\ removeCommas(userMatch.amount) = removeCommas(correctMatch.amount)
      /\ \E variations \in CURRENCY_VARIATIONS :
           userMatch.symbol \in variations /\ correctMatch.symbol \in variations

matchCurrency(userAnswer_, correctAnswer_) ==
  LET userMatch == currencyPattern(normalizeString(userAnswer_))
      correctMatch == currencyPattern(normalizeString(correctAnswer_))
      has(m, variations) ==
        \E v \in variations : v = m.symbol \/ v = toLowerCase(m.word)
  IN  /\ userMatch.matched
      /\ correctMatch.matched
      /\ removeCommas(userMatch.amount) = removeCommas(correctMatch.amount)
      /\ \E variations \in CURRENCY_VARIATIONS :
           has(userMatch, variations) /\ has(correctMatch, variations)

normalizePhone(s) ==
  LET nospace == ReplaceAll(toLowerCase(s), SpacePlus, RepLit(<<>>), FALSE)
      zeros == ReplaceAll(nospace, Cls({"o", "O"}), RepLit(<<"0">>), FALSE)
      doubles == ReplaceAll(zeros, Cat(<<Lit("double"), SpaceStar, Cls(Digits)>>),
                            RepLast(2), TRUE)
  IN  ReplaceAll(doubles, Cat(<<Lit("triple"), SpaceStar, Cls(Digits)>>),
                 RepLast(3), TRUE)

matchPhoneNumber(userAnswer_, correctAnswer_) ==
  normalizePhone(userAnswer_) = normalizePhone(correctAnswer_)

(***************************************************************************)
(* Answer equivalence engine                                               *)
(***************************************************************************)
\* only the leading "the" removed, a trailing one kept
withoutThe_LeadingOnly(s) == RemovePrefix(s, Cat(<<Lit("the"), SpacePlus>>))

withoutThe(s) ==
  RemoveSuffix(RemovePrefix(s, Cat(<<Lit("the"), SpacePlus>>)),
               Cat(<<SpacePlus, Lit("the")>>))

withoutArticle(s) ==
  RemovePrefix(s, Cat(<<Alt(<<Lit("a"), Lit("an")>>), SpacePlus>>))

\* replace('-', ' ') without the g flag: only the first hyphen is replaced
withoutHyphens_First(s) ==
  LET hyphens == {i \in DOMAIN s : s[i] = "-"}
  IN  [i \in DOMAIN s |-> IF hyphens # {} /\ i = SetMin(hyphens) THEN " " ELSE s[i]]

withoutHyphens(s) == ReplaceAll(s, Chr("-"), RepLit(<<" ">>), FALSE)

\* The rules of the loop body, in the order of the source; user and correct
\* are normalized.
RuleExact(user, correct) == user = correct
RuleNoSpaces(user, correct) == removeAllSpaces(user) = removeAllSpaces(correct)
RuleThe(user, correct) == withoutThe(user) = withoutThe(correct)
RuleArticle(user, correct) == withoutArticle(user) = withoutArticle(correct)
\* the plural looked for on the canonical side only
RulePlural_CorrectOnly(user, correct) ==
  \/ user \o <<"s">> = correct
  \/ user \o Str("es") = correct

RulePlural(user, correct) ==
  \/ user \o <<"s">> = correct
  \/ user = correct \o <<"s">>
  \/ user \o Str("es") = correct
  \/ user = correct \o Str("es")
RuleHyphen(user, correct) ==
  \/ withoutHyphens(user) = withoutHyphens(correct)
  \/ ReplaceAll(user, Chr(" "), RepLit(<<"-">>), FALSE) = correct

\* one iteration of the loop over acceptableAnswers: some rule returns true
MatchesAlternative(user, correct) ==
  \/ RuleExact(user, correct)
  \/ RuleNoSpaces(user, correct)
  \/ matchTime(user, correct)
  \/ matchNumber(user, correct)
  \/ matchMeasurement(user, correct)
  \/ matchCurrency(user, correct)
  \/ matchPhoneNumber(user, correct)
  \/ matchDate(user, correct)
  \/ RuleThe(user, correct)
  \/ RuleArticle(user, correct)
  \/ RulePlural(user, correct)
  \/ RuleHyphen(user, correct)

\* a slip in the delimiter: the alternatives split at ',' instead of '/'
acceptableAnswers_SplitComma(correctAnswers) ==
  LET parts == split(correctAnswers, ",")
  IN  [k \in DOMAIN parts |-> normalizeString(trim(parts[k]))]

\* correctAnswers.split('/').map(a => normalizeString(a.trim()))
acceptableAnswers(correctAnswers) ==
  LET parts == split(correctAnswers, "/")
  IN  [k \in DOMAIN parts |-> normalizeString(trim(parts[k]))]

\* the guard of line 311 left out
checkIeltsAnswer_NoGuard(userAnswer_, correctAnswers) ==
  LET user == normalizeString(userAnswer_)
      alts == acceptableAnswers(correctAnswers)
  IN  \E k \in DOMAIN alts : MatchesAlternative(user, alts[k])

\* a return false at the end of the loop body: only the first alternative is
\* tried
checkIeltsAnswer_FirstAlternative(userAnswer_, correctAnswers) ==
  IF userAnswer_ = <<>> \/ correctAnswers = <<>> THEN FALSE
  ELSE LET user == normalizeString(userAnswer_)
           alts == acceptableAnswers(correctAnswers)
       IN  MatchesAlternative(user, alts[1])

checkIeltsAnswer(userAnswer_, correctAnswers) ==
  IF userAnswer_ = <<>> \/ correctAnswers = <<>> THEN FALSE
  ELSE LET user == normalizeString(userAnswer_)
           alts == acceptableAnswers(correctAnswers)
       IN  \E k \in DOMAIN alts : MatchesAlternative(user, alts[k])

(***************************************************************************)
(* Multiple-selection matcher and dispatcher                               *)
(***************************************************************************)
\* new Set(answer.split(',').map(opt => normalizeString(opt)).filter(Boolean))
optionSet(answer) ==
  LET parts == split(answer, ",")
  IN  {normalizeString(parts[k]) : k \in DOMAIN parts} \ {<<>>}

\* the cardinality test and the converse inclusion left out
checkMultipleChoiceMultiple_Subset(userAnswer_, correctAnswer_) ==
  IF userAnswer_ = <<>> \/ correctAnswer_ = <<>> THEN FALSE
  ELSE \A opt \in optionSet(userAnswer_) : opt \in optionSet(correctAnswer_)

\* the options compared as arrays, position by position, instead of as sets
checkMultipleChoiceMultiple_Ordered(userAnswer_, correctAnswer_) ==
  LET options(answer) ==
        SelectSeq([k \in DOMAIN split(answer, ",") |->
                     normalizeString(split(answer, ",")[k])],
                  LAMBDA opt : opt # <<>>)
  IN  IF userAnswer_ = <<>> \/ correctAnswer_ = <<>> THEN FALSE
      ELSE options(userAnswer_) = options(correctAnswer_)

checkMultipleChoiceMultiple(userAnswer_, correctAnswer_) ==
  IF userAnswer_ = <<>> \/ correctAnswer_ = <<>> THEN FALSE
  ELSE LET userOptions == optionSet(userAnswer_)
           correctOptions == optionSet(correctAnswer_)
       IN  IF Cardinality(userOptions) # Cardinality(correctOptions) THEN FALSE
           ELSE /\ \A opt \in userOptions : opt \in correctOptions
                /\ \A opt \in correctOptions : opt \in userOptions

MULTIPLE_CHOICE_MULTIPLE == "MULTIPLE_CHOICE_MULTIPLE"

\* questionType of a call that passes no third argument
Absent == "undefined"

\* the mode inferred from the content: a comma in the canonical answer
\* selects the multi-select matcher
checkAnswer_ByContent(userAnswer_, correctAnswer_, questionType_) ==
  IF \/ questionType_ = MULTIPLE_CHOICE_MULTIPLE
     \/ \E i \in DOMAIN correctAnswer_ : correctAnswer_[i] = ","
  THEN checkMultipleChoiceMultiple(userAnswer_, correctAnswer_)
  ELSE checkIeltsAnswer(userAnswer_, correctAnswer_)

checkAnswer(userAnswer_, correctAnswer_, questionType_) ==
  IF questionType_ = MULTIPLE_CHOICE_MULTIPLE
  THEN checkMultipleChoiceMultiple(userAnswer_, correctAnswer_)
  ELSE checkIeltsAnswer(userAnswer_, correctAnswer_)

(***************************************************************************)
(* Inputs of one call                                                      *)
(***************************************************************************)
MaxLen == 3
MaxOptions == 3

QuestionTypes ==
  {Absent, MULTIPLE_CHOICE_MULTIPLE, "FILL_IN_BLANK", "multiple_choice_multiple"}

Alphabet == {"a", "B", "5", " ", "/", ","}

\* every string over Alphabet of at most n characters
Strings(n) == UNION {[1..k -> Alphabet] : k \in 0..n}

Samples ==
  Words(<<"anything", "a", "A", " ", "s", "es", "/", ",", "a/b", "a,b", "B,A",
          "A,A,B", "a b", "a-b", "the beach", "beach", "cat", "cats",
          "12", "twelve", "9am", "9 a.m.">>)

RECURSIVE join(_, _)
\* Array.prototype.join(d)
join(parts, d) ==
  IF Len(parts) = 0 THEN <<>>
  ELSE IF Len(parts) = 1 THEN parts[1]
  ELSE parts[1] \o <<d>> \o join(Tail(parts), d)

\* the answers of a user and the alternatives of a canonical answer
AltUsers == Words(<<"", " ", "s", "es", "a", "B", "a b", "as">>)
Alternatives == Words(<<"", " ", "a", "b ", "a-b">>)

\* the options of a multi-select answer, as typed
UserOptions == Words(<<"", "a", " A", "b">>)
CorrectOptions == Words(<<"", "a", "B">>)
OptionLists(opts, n) == UNION {[1..k -> opts] : k \in 1..n}

NumberSpellings == (UNION NUMBER_WORDS) \cup Words(<<"25", "twenty-five">>)

MeasureNumbers == Words(<<"5", "6", "1.5", "15", "1,5">>)
MeasureSpacings == Words(<<"", " ">>)
MeasureUnits == Words(<<"km", "kilometres", "miles", "m", "lbs">>)
Measurements ==
  {n \o sp \o u : n \in MeasureNumbers, sp \in MeasureSpacings, u \in MeasureUnits}

InitStrings ==
  /\ userAnswer \in Strings(MaxLen)
  /\ correctAnswer = userAnswer
  /\ questionType = Absent

InitSamples ==
  /\ userAnswer \in Samples \cup {<<>>}
  /\ correctAnswer \in Samples \cup {<<>>}
  /\ questionType \in QuestionTypes

InitAlternatives ==
  /\ userAnswer \in AltUsers
  /\ correctAnswer \in {join(<<a, b, c>>, "/") : a, b, c \in Alternatives}
  /\ questionType = Absent

InitOptions ==
  /\ userAnswer \in {join(l, ",") : l \in OptionLists(UserOptions, MaxOptions)}
  /\ correctAnswer \in {join(l, ",") : l \in OptionLists(CorrectOptions, 2)}
  /\ questionType = MULTIPLE_CHOICE_MULTIPLE

InitNumbers ==
  /\ userAnswer \in NumberSpellings
  /\ correctAnswer \in NumberSpellings
  /\ questionType = Absent

InitMeasurements ==
  /\ userAnswer \in Measurements
  /\ correctAnswer \in Measurements
  /\ questionType = Absent

\* no job requested, no cell on the screen, no call of checkAnswer
NoContent == [script |-> FALSE, questions |-> FALSE, sampleAnswers |-> "absent"]
NoJob == [status |-> "none", success_count |-> 0, failure_count |-> 0, error_log |-> <<>>]
JobIdle ==
  /\ jobPc = "idle" /\ response = 0 /\ module = "" /\ quantity = 0
  /\ testIndex = 0 /\ successCount = 0 /\ failureCount = 0 /\ errorLog = <<>>
  /\ content = NoContent /\ audioUrl = "null" /\ sampleAudioUrl = "null"
  /\ job = NoJob /\ generated_test_audio = <<>> /\ statusWrites = <<>>
  /\ collaboratorsOk = TRUE
BlanksIdle ==
  storedAnswer = <<>> /\ blankCount = 0 /\ editedBlank = 0 /\ editedText = <<>>
CheckerIdle ==
  /\ userAnswer = <<>> /\ correctAnswer = <<>> /\ questionType = "undefined"
  /\ result = FALSE /\ pc = "idle"

Init ==
  /\ \/ InitStrings
     \/ InitSamples
     \/ InitAlternatives
     \/ InitOptions
     \/ InitNumbers
     \/ InitMeasurements
  /\ result = FALSE
  /\ pc = "call"
  /\ JobIdle /\ BlanksIdle

\* one call of checkAnswer
CheckAnswer ==
  /\ pc = "call"
  /\ result' = checkAnswer(userAnswer, correctAnswer, questionType)
  /\ pc' = "done"
  /\ UNCHANGED <<userAnswer, correctAnswer, questionType>>
  /\ UNCHANGED <<jobVars, blankVars>>

Next == CheckAnswer

Spec == Init /\ [][Next]_vars

(***************************************************************************)
(* Inputs of one call, written in the formats the matchers recognise       *)
(***************************************************************************)
\* every unit of the measurement table against every unit of its row
UnitNumbers == Words(<<"5", "1,000", "1000">>)
AllUnits == UNION MEASUREMENT_VARIATIONS
FamilyOf(u) == UNION {variations \in MEASUREMENT_VARIATIONS : u \in variations}

InitUnits ==
  /\ \E u1 \in AllUnits : \E u2 \in FamilyOf(u1) :
       \E s1, s2 \in MeasureSpacings :
         \E n1, n2 \in UnitNumbers :
           /\ (n1 = Str("5")) = (n2 = Str("5"))
           /\ (n1 # Str("5")) => (u1 \in MeasureUnits /\ u2 \in MeasureUnits)
           /\ userAnswer = n1 \o s1 \o u1
           /\ correctAnswer = n2 \o s2 \o u2
  /\ questionType = Absent

\* every indicator of the currency table against every other: a symbol leads
\* the amount, a word trails it; the words also in capitals
UpperChar(c) ==
  IF c \in LowerLetters
  THEN UpperSeq[CHOOSE i \in 1..26 : LowerSeq[i] = c]
  ELSE c
toUpperCase(s) == [i \in 1..Len(s) |-> UpperChar(s[i])]

AllCurrencies == UNION CURRENCY_VARIATIONS
CurrencyOf(c) == UNION {variations \in CURRENCY_VARIATIONS : c \in variations}
CurrencyNumbers == Words(<<"50", "1,000", "1000">>)
Amount(c, sp, n) ==
  IF c[1] \in CurrencySymbols THEN c \o sp \o n ELSE n \o sp \o c
Amounts(c, n) ==
  {Amount(c, sp, n) : sp \in MeasureSpacings} \cup {Amount(toUpperCase(c), <<" ">>, n)}

InitCurrencies ==
  /\ \E c1, c2 \in AllCurrencies : \E n1, n2 \in CurrencyNumbers :
       /\ removeCommas(n1) = removeCommas(n2)
       /\ (n1 = n2) => (n1 = Str("50"))
       /\ (n1 # n2) => (c2 \in CurrencyOf(c1))
       /\ userAnswer \in Amounts(c1, n1)
       /\ correctAnswer \in Amounts(c2, n2)
  /\ questionType = Absent

\* dictated digits: "double N" and "triple N" against the digits written out
Dictations(d) ==
  { Str("double ") \o d, Str("double") \o d, Str("Double ") \o d,
    Str("double ") \o d \o <<" ">> \o d,
    Str("triple ") \o d, Str("triple") \o d, Str("TRIPLE ") \o d }
WrittenOut(d) ==
  { d \o d, d \o <<" ">> \o d, d \o d \o d, d \o <<" ">> \o d \o <<" ">> \o d }

InitPhones ==
  /\ \E d \in Digits :
       /\ userAnswer \in Dictations(<<d>>) \cup WrittenOut(<<d>>)
       /\ correctAnswer \in Dictations(<<d>>) \cup WrittenOut(<<d>>)
  /\ questionType = Absent

\* times of day: the writings of one digit sequence, and the suffixes that
\* say the same (morning, afternoon, none)
TimeWritings ==
  { Words(<<"9">>), Words(<<"9:30", "9.30", "930">>) }
TimeSuffixes ==
  { Words(<<"am", "a.m", "a.m.", " a.m.", " AM">>),
    Words(<<"pm", "p.m.", " p.m.">>),
    Words(<<"", " o'clock">>) }
Times(writings, suffixes) == {w \o x : w \in writings, x \in suffixes}
AllTimes == UNION {Times(ws, xs) : ws \in TimeWritings, xs \in TimeSuffixes}

InitTimes ==
  /\ userAnswer \in AllTimes
  /\ correctAnswer \in AllTimes
  /\ questionType = Absent

\* phrases of articles and a noun: every phrase of up to MaxWords words, and
\* some of three
MaxWords == 2
ArticleWords == Words(<<"the", "a", "an", "beach">>)
Phrases(n) ==
  {join(ws, " ") : ws \in UNION {[1..k -> ArticleWords] : k \in 1..n}}
ArticlePhrases ==
  Phrases(MaxWords) \cup
  Words(<<"the beach the", "the the beach", "beach the the", "a the beach",
          "an a beach", "The  Beach">>)

InitArticles ==
  /\ userAnswer \in ArticlePhrases
  /\ correctAnswer \in ArticlePhrases
  /\ questionType = Absent

\* singulars and plurals, as typed and in capitals between spaces
PluralStems == Words(<<"", "cat", "box">>)
PluralEndings == Words(<<"", "s", "es">>)
Spellings(s) == {s, <<" ">> \o toUpperCase(s) \o <<" ">>}
Plurals == UNION {Spellings(stem \o e) : stem \in PluralStems, e \in PluralEndings}

InitPlurals ==
  /\ userAnswer \in Plurals
  /\ correctAnswer \in Plurals
  /\ questionType = Absent

\* compounds of two and three words, joined by hyphens and spaces
HyphenSeparators == Words(<<"-", " ", "- ">>)
Compounds ==
  UNION { Spellings(Str("well") \o s1 \o Str("known")) \cup
          Spellings(Str("well") \o s1 \o Str("known") \o s2 \o Str("x")) :
            s1 \in HyphenSeparators, s2 \in HyphenSeparators }

InitCompounds ==
  /\ userAnswer \in Compounds
  /\ correctAnswer \in Compounds
  /\ questionType = Absent

\* one word with an apostrophe and one between double quotes, the quotes
\* straight and curly
SingleQuotes == {"'", LSQUO, RSQUO}
DoubleQuotes == {"\"", LDQUO, RDQUO}
Quoted ==
  {Str("it") \o <<q>> \o Str("s") : q \in SingleQuotes} \cup
  {<<q1>> \o Str("hi") \o <<q2>> : q1 \in DoubleQuotes, q2 \in DoubleQuotes}

InitQuotes ==
  /\ userAnswer \in Quoted
  /\ correctAnswer \in Quoted
  /\ questionType = Absent

\* dates in the four formats of datePatterns, and answers of the same shape
\* that are no dates
DateWords == Words(<<"march", "april", "room", "flat">>)
DateDays == Words(<<"5", "12", "7th">>)
DateForms ==
  << {w \o <<" ">> \o d : w \in DateWords, d \in DateDays},
     {d \o x \o w : w \in DateWords, d \in DateDays, x \in Words(<<" ", " of ">>)},
     Words(<<"03/05", "12/11", "3-5">>),
     Words(<<"2024-03-05", "2023/12/11">>) >>

InitDates ==
  /\ \E j, k \in DOMAIN DateForms :
       userAnswer \in DateForms[j] /\ correctAnswer \in DateForms[k]
  /\ questionType = Absent

InitFormats ==
  /\ \/ InitUnits
     \/ InitCurrencies
     \/ InitPhones
     \/ InitTimes
     \/ InitArticles
     \/ InitPlurals
     \/ InitCompounds
     \/ InitQuotes
     \/ InitDates
  /\ result = FALSE
  /\ pc = "call"
  /\ JobIdle /\ BlanksIdle

SpecFormats == InitFormats /\ [][Next]_vars

(***************************************************************************)
(* The bulk-generation job (src/unnamed/part_000)                          *)
(***************************************************************************)
\* the requests: the largest quantity tried, and the limit of the validation
MaxQuantity == 3
QuantityLimit == 20
Modules == {"listening", "speaking", "reading", "writing"}
AudioModules == {"listening", "speaking"}
Authorizations == {"missing", "invalid", "notAdmin", "admin"}
RequestModules == Modules \cup {"", "grammar"}
RequestDifficulties == {"", "easy", "extreme"}
RequestQuantities == 0..MaxQuantity \cup {QuantityLimit + 1}
Terminal == {"completed", "failed"}

\* what JSON.parse may give back to processGenerationJob: which of the
\* top-level fields the job reads are there (script truthy, questions a
\* list, sampleAnswers absent, a string or a list)
ContentShapes ==
  [script : BOOLEAN, questions : BOOLEAN, sampleAnswers : {"absent", "string", "list"}]
\* the shape each prompt of generateContent asks for
PromptShape(m) ==
  IF m = "listening"
  THEN [script |-> TRUE, questions |-> TRUE, sampleAnswers |-> "absent"]
  ELSE IF m = "speaking"
  THEN [script |-> FALSE, questions |-> FALSE, sampleAnswers |-> "string"]
  ELSE IF m = "reading"
  THEN [script |-> FALSE, questions |-> TRUE, sampleAnswers |-> "absent"]
  ELSE [script |-> FALSE, questions |-> FALSE, sampleAnswers |-> "absent"]

\* serve: the checks in the order of the source, the insert of the job row,
\* and the start of processGenerationJob up to its first await
ServeStatus(authorization, m, topicGiven, difficulty, q, created) ==
  IF authorization \in {"missing", "invalid"} THEN 401
  ELSE IF authorization = "notAdmin" THEN 403
  ELSE IF m = "" \/ ~topicGiven \/ difficulty = "" \/ q = 0 THEN 400
  ELSE IF m \notin Modules THEN 400
  ELSE IF difficulty \notin {"easy", "medium", "hard"} THEN 400
  ELSE IF q < 1 \/ q > QuantityLimit THEN 400
  ELSE IF ~created THEN 500
  ELSE 200

Serve ==
  /\ jobPc = "idle"
  /\ \E authorization \in Authorizations, m \in RequestModules,
        topicGiven \in BOOLEAN, difficulty \in RequestDifficulties,
        q \in RequestQuantities, created \in BOOLEAN :
       /\ response' = ServeStatus(authorization, m, topicGiven, difficulty, q, created)
       /\ IF response' = 200
          THEN /\ job' = [NoJob EXCEPT !.status = "pending"]
               /\ statusWrites' = <<"pending">>
               /\ module' = m
               /\ quantity' = q
               /\ jobPc' = "processing"
          ELSE /\ jobPc' = "rejected"
               /\ UNCHANGED <<job, statusWrites, module, quantity>>
  /\ UNCHANGED <<testIndex, successCount, failureCount, errorLog, content,
                 audioUrl, sampleAudioUrl, generated_test_audio, collaboratorsOk>>
  /\ UNCHANGED <<checkerVars, blankVars>>

\* the update to "processing": the result of the call is not looked at, so
\* a write that failed is not noticed
MarkProcessing ==
  /\ jobPc = "processing"
  /\ \E written \in BOOLEAN :
       job' = IF written THEN [job EXCEPT !.status = "processing"] ELSE job
  /\ statusWrites' = Append(statusWrites, "processing")
  /\ successCount' = 0 /\ failureCount' = 0 /\ errorLog' = <<>>
  /\ testIndex' = 0
  /\ jobPc' = "content"
  /\ UNCHANGED <<response, module, quantity, content, audioUrl, sampleAudioUrl,
                 generated_test_audio, collaboratorsOk>>
  /\ UNCHANGED <<checkerVars, blankVars>>

\* the catch block of the loop body without the entry of the error log
Catch_NoLog(message) ==
  /\ failureCount' = failureCount + 1
  /\ errorLog' = errorLog
  /\ jobPc' = "progress"
  /\ UNCHANGED <<response, module, quantity, testIndex, successCount, content,
                 audioUrl, sampleAudioUrl, job, generated_test_audio, statusWrites>>

\* the catch block of the loop body, up to its update of the progress
Catch(message) ==
  /\ failureCount' = failureCount + 1
  /\ errorLog' = Append(errorLog, [index |-> testIndex, error |-> message])
  /\ jobPc' = "progress"
  /\ UNCHANGED <<response, module, quantity, testIndex, successCount, content,
                 audioUrl, sampleAudioUrl, job, generated_test_audio, statusWrites>>

\* generateContent: the gateway fails (or answers with nothing, or with no
\* JSON), or the parsed value is falsy, or it is a value of some shape
GenerateContent ==
  /\ jobPc = "content"
  /\ \/ /\ Catch("AI generation failed")
        /\ collaboratorsOk' = FALSE
     \/ /\ Catch("Content generation failed")
        /\ collaboratorsOk' = FALSE
     \/ \E shape \in ContentShapes :
          /\ content' = shape
          /\ jobPc' = IF module \in AudioModules THEN "audio" ELSE "insert"
          /\ UNCHANGED <<response, module, quantity, testIndex, successCount,
                         failureCount, errorLog, audioUrl, sampleAudioUrl, job,
                         generated_test_audio, statusWrites, collaboratorsOk>>
  /\ UNCHANGED <<checkerVars, blankVars>>

\* content.script || content.questions?.map(q => q.text).join(" ") is a
\* string when there is a script or a list of questions, and undefined
\* otherwise
HasText == content.script \/ content.questions
AudioOutcomes == {"ok", "tts", "upload"}

\* the audio failure swallowed: the test goes on to the insert without audio
MainAudio_KeepTest ==
  /\ jobPc = "audio"
  /\ \E outcome \in AudioOutcomes :
       /\ audioUrl' = IF HasText /\ outcome = "ok" THEN "url" ELSE "null"
       /\ collaboratorsOk' = (collaboratorsOk /\ (~HasText \/ outcome = "ok"))
       /\ jobPc' = IF module = "speaking" /\ content.sampleAnswers # "absent"
                       /\ HasText /\ outcome = "ok"
                   THEN "sample" ELSE "insert"
  /\ UNCHANGED <<response, module, quantity, testIndex, successCount,
                 failureCount, errorLog, content, sampleAudioUrl, job,
                 generated_test_audio, statusWrites>>
  /\ UNCHANGED <<checkerVars, blankVars>>

\* generateAndUploadAudio for the main audio: text.replace throws when the
\* text is undefined; the TTS call or the upload may fail; every throw is
\* caught by the inner catch and thrown again to the catch of the loop body
MainAudio ==
  /\ jobPc = "audio"
  /\ IF ~HasText
     THEN Catch("Audio generation failed") /\ UNCHANGED collaboratorsOk
     ELSE \E outcome \in AudioOutcomes :
            IF outcome = "ok"
            THEN /\ audioUrl' = "url"
                 /\ jobPc' = IF module = "speaking" /\ content.sampleAnswers # "absent"
                             THEN "sample" ELSE "insert"
                 /\ UNCHANGED <<response, module, quantity, testIndex, successCount,
                                failureCount, errorLog, content, sampleAudioUrl, job,
                                generated_test_audio, statusWrites, collaboratorsOk>>
            ELSE Catch("Audio generation failed") /\ collaboratorsOk' = FALSE
  /\ UNCHANGED <<checkerVars, blankVars>>

\* generateAndUploadAudio for the sample answers of a speaking test
SampleAudio ==
  /\ jobPc = "sample"
  /\ IF content.sampleAnswers = "list"
     THEN Catch("Audio generation failed") /\ UNCHANGED collaboratorsOk
     ELSE \E outcome \in AudioOutcomes :
            IF outcome = "ok"
            THEN /\ sampleAudioUrl' = "url"
                 /\ jobPc' = "insert"
                 /\ UNCHANGED <<response, module, quantity, testIndex, successCount,
                                failureCount, errorLog, content, audioUrl, job,
                                generated_test_audio, statusWrites, collaboratorsOk>>
            ELSE Catch("Audio generation failed") /\ collaboratorsOk' = FALSE
  /\ UNCHANGED <<checkerVars, blankVars>>

\* the row of testData that the job reads back: its audio and its status
TestRow ==
  [index |-> testIndex, module |-> module, audio_url |-> audioUrl,
   sample_audio_url |-> sampleAudioUrl,
   status |-> IF audioUrl # "null" THEN "ready" ELSE "content_only"]

\* the insert into generated_test_audio, and successCount++ when it went well
InsertTest ==
  /\ jobPc = "insert"
  /\ \/ /\ generated_test_audio' = Append(generated_test_audio, TestRow)
        /\ successCount' = successCount + 1
        /\ jobPc' = "progress"
        /\ UNCHANGED <<response, module, quantity, testIndex, failureCount,
                       errorLog, content, audioUrl, sampleAudioUrl, job,
                       statusWrites, collaboratorsOk>>
     \/ /\ Catch("Database insert failed")
        /\ collaboratorsOk' = FALSE
  /\ UNCHANGED <<checkerVars, blankVars>>

\* the running test is the one of the last entry of the error log
TestFailed == errorLog # <<>> /\ errorLog[Len(errorLog)].index = testIndex
Progress ==
  IF TestFailed
  THEN [job EXCEPT !.success_count = successCount, !.failure_count = failureCount,
                   !.error_log = errorLog]
  ELSE [job EXCEPT !.success_count = successCount, !.failure_count = failureCount]
FinalStatus == IF failureCount = quantity THEN "failed" ELSE "completed"
Finished ==
  [status |-> FinalStatus, success_count |-> successCount,
   failure_count |-> failureCount, error_log |-> errorLog]

\* the final update moved into the loop: every progress update writes the
\* terminal status too
UpdateProgress_MarksFinished ==
  /\ jobPc = "progress"
  /\ \E written \in BOOLEAN : job' = IF written THEN Finished ELSE job
  /\ statusWrites' = Append(statusWrites, FinalStatus)
  /\ testIndex' = testIndex + 1
  /\ jobPc' = IF testIndex + 1 < quantity THEN "content" ELSE "final"
  /\ content' = NoContent /\ audioUrl' = "null" /\ sampleAudioUrl' = "null"
  /\ collaboratorsOk' = TRUE
  /\ UNCHANGED <<response, module, quantity, successCount, failureCount,
                 errorLog, generated_test_audio>>
  /\ UNCHANGED <<checkerVars, blankVars>>

\* the update of the progress at the end of the try or of the catch block
\* (its result is not looked at), the delay, i++ and the test of the loop
UpdateProgress ==
  /\ jobPc = "progress"
  /\ \E written \in BOOLEAN : job' = IF written THEN Progress ELSE job
  /\ testIndex' = testIndex + 1
  /\ jobPc' = IF testIndex + 1 < quantity THEN "content" ELSE "final"
  /\ content' = NoContent /\ audioUrl' = "null" /\ sampleAudioUrl' = "null"
  /\ collaboratorsOk' = TRUE
  /\ UNCHANGED <<response, module, quantity, successCount, failureCount,
                 errorLog, generated_test_audio, statusWrites>>
  /\ UNCHANGED <<checkerVars, blankVars>>

\* the job marked failed as soon as one test failed
MarkFinished_AnyFailure ==
  /\ jobPc = "final"
  /\ \E written \in BOOLEAN :
       job' = IF written
              THEN [Finished EXCEPT !.status = IF failureCount > 0 THEN "failed"
                                               ELSE "completed"]
              ELSE job
  /\ statusWrites' = Append(statusWrites, IF failureCount > 0 THEN "failed"
                                          ELSE "completed")
  /\ jobPc' = "done"
  /\ UNCHANGED <<response, module, quantity, testIndex, successCount,
                 failureCount, errorLog, content, audioUrl, sampleAudioUrl,
                 generated_test_audio, collaboratorsOk>>
  /\ UNCHANGED <<checkerVars, blankVars>>

\* the final update, with the terminal status; its result is not looked at
MarkFinished ==
  /\ jobPc = "final"
  /\ \E written \in BOOLEAN : job' = IF written THEN Finished ELSE job
  /\ statusWrites' = Append(statusWrites, FinalStatus)
  /\ jobPc' = "done"
  /\ UNCHANGED <<response, module, quantity, testIndex, successCount,
                 failureCount, errorLog, content, audioUrl, sampleAudioUrl,
                 generated_test_audio, collaboratorsOk>>
  /\ UNCHANGED <<checkerVars, blankVars>>

InitJobs == JobIdle /\ CheckerIdle /\ BlanksIdle

NextJobs ==
  \/ Serve
  \/ MarkProcessing
  \/ GenerateContent
  \/ MainAudio
  \/ SampleAudio
  \/ InsertTest
  \/ UpdateProgress
  \/ MarkFinished

SpecJobs == InitJobs /\ [][NextJobs]_vars

\* every call of the job returns: no step of the job waits for ever
SpecJobsFair == SpecJobs /\ WF_vars(NextJobs)

(***************************************************************************)
(* The blanks of one table cell                                            *)
(* (src/src/components/listening/questions/ListeningTableCompletion.tsx)   *)
(***************************************************************************)
MaxBlanks == 3
MaxAnswerLen == 6
\* what a user leaves in an input
TypedTexts == Words(<<"", "x", "y", "a,b", ",">>)

\* lines 116 to 119: the stored answer of a cell of n blanks, as the values
\* of its blanks
CurrentAnswers(stored, n) ==
  IF n > 1 THEN split(stored, ",") ELSE <<stored>>

\* line 155: the value of blank k (counted from 0); an index past the end of
\* the array is undefined, shown as the empty string
ShownValue(stored, n, k) ==
  LET currentAnswers == CurrentAnswers(stored, n)
  IN  IF k + 1 <= Len(currentAnswers) THEN currentAnswers[k + 1] ELSE <<>>

\* lines 158 to 163: an assignment past the end of the array leaves holes,
\* which join writes as empty strings
UpdatedAnswer(stored, n, k, text) ==
  LET currentAnswers == CurrentAnswers(stored, n)
      length == IF k + 1 > Len(currentAnswers) THEN k + 1 ELSE Len(currentAnswers)
      newAnswers ==
        [j \in 1..length |->
           IF j = k + 1 THEN text
           ELSE IF j <= Len(currentAnswers) THEN currentAnswers[j] ELSE <<>>]
  IN  IF n > 1 THEN join(newAnswers, ",") ELSE newAnswers[1]

\* onChange of the input of blank k, then onAnswerChange (line 165)
OnChange ==
  \E k \in 0..(blankCount - 1) : \E text \in TypedTexts :
    LET updatedAnswer == UpdatedAnswer(storedAnswer, blankCount, k, text)
    IN  /\ Len(updatedAnswer) <= MaxAnswerLen
        /\ storedAnswer' = updatedAnswer
        /\ editedBlank' = k
        /\ editedText' = text
        /\ UNCHANGED <<blankCount, checkerVars, jobVars>>

InitBlanks ==
  /\ CheckerIdle /\ JobIdle
  /\ blankCount \in 1..MaxBlanks
  /\ storedAnswer = <<>>
  /\ editedBlank = 0
  /\ editedText = <<>>

NextBlanks == OnChange

SpecBlanks == InitBlanks /\ [][NextBlanks]_vars

(***************************************************************************)
(* Properties                                                              *)
(***************************************************************************)
Done == pc = "done"
SingleAnswer == questionType = Absent
MultiSelect == questionType = MULTIPLE_CHOICE_MULTIPLE
HasSlash(s) == \E i \in DOMAIN s : s[i] = "/"

\* C1, as stated: checkAnswer(s, s) with no question type is true for
\* every string s.
C1_ReflexiveAnyString ==
  (Done /\ SingleAnswer /\ userAnswer = correctAnswer) => result = TRUE

\* C1, amended: checkAnswer(s, s) with no question type is true for every
\* non-empty string s that holds no '/'.
C1_Reflexive ==
  (Done /\ SingleAnswer /\ userAnswer = correctAnswer
     /\ userAnswer # <<>> /\ ~HasSlash(userAnswer)) => result = TRUE

C1_Witness ==
  /\ Done /\ SingleAnswer
  /\ userAnswer = Str("a B") /\ correctAnswer = userAnswer
  /\ result = TRUE

\* C2: checkAnswer(x, a/b/c) is true iff checkAnswer(x, a), checkAnswer(x, b)
\* or checkAnswer(x, c) is true, for all alternative strings a, b, c.
C2_AlternativeIndependence ==
  (Done /\ SingleAnswer) =>
    \A a, b, c \in Alternatives :
      correctAnswer = join(<<a, b, c>>, "/") =>
        result = (\/ checkAnswer(userAnswer, a, Absent)
                  \/ checkAnswer(userAnswer, b, Absent)
                  \/ checkAnswer(userAnswer, c, Absent))

\* C3: checkAnswer is false whenever the user answer or the canonical answer
\* is the empty string, for every question type.
C3_FailClosed ==
  (Done /\ (userAnswer = <<>> \/ correctAnswer = <<>>)) => result = FALSE

C3_Witness ==
  /\ Done /\ MultiSelect
  /\ userAnswer = <<>> /\ correctAnswer = Str("anything")
  /\ result = FALSE

\* C4: checkAnswer is checkMultipleChoiceMultiple when the question type is
\* exactly MULTIPLE_CHOICE_MULTIPLE and checkIeltsAnswer for every other
\* type and for none, whatever the two answers hold.
C4_Dispatch ==
  Done =>
    result = IF questionType = "MULTIPLE_CHOICE_MULTIPLE"
             THEN checkMultipleChoiceMultiple(userAnswer, correctAnswer)
             ELSE checkIeltsAnswer(userAnswer, correctAnswer)

\* a call whose two modes disagree, with a tag that differs from the
\* multi-select tag in case only
C4_Witness ==
  /\ Done /\ questionType = "multiple_choice_multiple"
  /\ userAnswer = Str("B,A") /\ correctAnswer = Str("a,b")
  /\ checkMultipleChoiceMultiple(userAnswer, correctAnswer)
  /\ result = FALSE

\* the set of normalized, non-empty comma-separated tokens of s
TokenSet(s) ==
  {t \in {normalizeString(split(s, ",")[k]) : k \in DOMAIN split(s, ",")} :
     Len(t) > 0}

\* C5, as stated: for any two input strings checkMultipleChoiceMultiple is
\* true iff their sets of normalized non-empty tokens are equal.
C5_SetEqualityAnyString ==
  (Done /\ MultiSelect) =>
    result = (TokenSet(userAnswer) = TokenSet(correctAnswer))

\* C5, amended: for any two non-empty input strings
\* checkMultipleChoiceMultiple is true iff their sets of normalized
\* non-empty tokens are equal.
C5_SetEquality ==
  (Done /\ MultiSelect /\ userAnswer # <<>> /\ correctAnswer # <<>>) =>
    result = (TokenSet(userAnswer) = TokenSet(correctAnswer))

C5_Witness ==
  /\ Done /\ MultiSelect
  /\ userAnswer = Str("b, A") /\ correctAnswer = Str("a,B")
  /\ result = TRUE

\* the comma-separated lists that hold the tokens of l in another order
Permuted(l) ==
  {join([i \in DOMAIN l |-> l[p[i]]], ",") : p \in Permutations(DOMAIN l)}
\* the comma-separated lists that hold the tokens of l and one of them again
Repeated(l) == {join(Append(l, l[i]), ",") : i \in DOMAIN l}

\* C6, as stated: the result of checkMultipleChoiceMultiple does not change
\* when the tokens of either argument are permuted or a token already
\* present is repeated, and an answer with an extra distinct token is
\* rejected.
C6_OrderDuplicateAnyToken ==
  (Done /\ MultiSelect) =>
    LET ut == split(userAnswer, ",")
        ct == split(correctAnswer, ",")
        mcm(u, c) == checkMultipleChoiceMultiple(u, c)
    IN  /\ \A u \in Permuted(ut) \cup Repeated(ut) : mcm(u, correctAnswer) = result
        /\ \A c \in Permuted(ct) \cup Repeated(ct) : mcm(userAnswer, c) = result
        /\ (\E i \in DOMAIN ut : \A j \in DOMAIN ct :
              normalizeString(ut[i]) # normalizeString(ct[j])) => result = FALSE

\* C6, amended: for non-empty arguments the result of
\* checkMultipleChoiceMultiple does not change when the tokens of either
\* argument are permuted or a token already present is repeated, and an
\* answer with an extra token that is non-empty after normalization and
\* distinct from every token of the canonical answer is rejected.
C6_OrderDuplicate ==
  (Done /\ MultiSelect /\ userAnswer # <<>> /\ correctAnswer # <<>>) =>
    LET ut == split(userAnswer, ",")
        ct == split(correctAnswer, ",")
        mcm(u, c) == checkMultipleChoiceMultiple(u, c)
    IN  /\ \A u \in Permuted(ut) \cup Repeated(ut) : mcm(u, correctAnswer) = result
        /\ \A c \in Permuted(ct) \cup Repeated(ct) : mcm(userAnswer, c) = result
        /\ (\E t \in TokenSet(userAnswer) : t \notin TokenSet(correctAnswer))
             => result = FALSE

\* "b, A,a" against "a,B": out of order and with a duplicate, accepted
C6_Witness ==
  /\ Done /\ MultiSelect
  /\ userAnswer = Str("b, A,a") /\ correctAnswer = Str("a,B")
  /\ result = TRUE

\* C7: checkAnswer accepts every pair of spellings of one row of the
\* number-word table, in either order.
C7_NumberWords ==
  (Done /\ SingleAnswer) =>
    \A words \in NUMBER_WORDS :
      (userAnswer \in words /\ correctAnswer \in words) => result = TRUE

\* C8: checkAnswer rejects every pair of spellings taken from two different
\* rows of the number-word table, and "25" against "twenty-five".
C8_NumberWordsDistinct ==
  (Done /\ SingleAnswer) =>
    /\ \A w1, w2 \in NUMBER_WORDS :
         (w1 # w2 /\ userAnswer \in w1 /\ correctAnswer \in w2) => result = FALSE
    /\ ({userAnswer, correctAnswer} = {Str("25"), Str("twenty-five")})
         => result = FALSE

C8_Witness ==
  /\ Done /\ SingleAnswer
  /\ userAnswer = Str("13") /\ correctAnswer = Str("thirty")
  /\ result = FALSE

SameFamily(u1, u2) ==
  \E variations \in MEASUREMENT_VARIATIONS : u1 \in variations /\ u2 \in variations

\* C9: two answers <number><optional space><unit> with the same number and
\* units of different rows of the measurement table are rejected, with or
\* without the space.
C9_UnitMismatch ==
  (Done /\ SingleAnswer) =>
    \A n \in MeasureNumbers : \A s1, s2 \in MeasureSpacings :
      \A u1, u2 \in MeasureUnits :
        (/\ userAnswer = n \o s1 \o u1
         /\ correctAnswer = n \o s2 \o u2
         /\ ~SameFamily(u1, u2)) => result = FALSE

\* C10: two answers <number><optional space><unit> whose numbers differ
\* after the removal of commas are rejected, for every unit and spacing.
C10_NumberMismatch ==
  (Done /\ SingleAnswer) =>
    \A n1, n2 \in MeasureNumbers : \A s1, s2 \in MeasureSpacings :
      \A u1, u2 \in MeasureUnits :
        (/\ userAnswer = n1 \o s1 \o u1
         /\ correctAnswer = n2 \o s2 \o u2
         /\ removeCommas(n1) # removeCommas(n2)) => result = FALSE

\* C11: two answers <number><optional space><unit> whose numbers are equal
\* after the removal of commas and whose units stand in the same row of the
\* measurement table are accepted, whichever of the two is the user answer.
C11_MeasurementEquivalence ==
  (Done /\ SingleAnswer) =>
    \A n1 \in UnitNumbers : \A s1 \in MeasureSpacings : \A u1 \in AllUnits :
      (userAnswer = n1 \o s1 \o u1) =>
        \A n2 \in UnitNumbers : \A s2 \in MeasureSpacings : \A u2 \in FamilyOf(u1) :
          (/\ correctAnswer = n2 \o s2 \o u2
           /\ removeCommas(n1) = removeCommas(n2)) => result = TRUE

C11_Witness ==
  /\ Done /\ SingleAnswer
  /\ userAnswer = Str("5km") /\ correctAnswer = Str("5 kilometres")
  /\ result = TRUE

\* C12: two amounts with the same number whose currency indicators (a
\* leading symbol or a trailing word) stand in different rows of the currency
\* table are rejected, in the symbol forms and in the word forms alike.
C12_CurrencyMismatch ==
  (Done /\ SingleAnswer) =>
    \A n \in CurrencyNumbers : \A c1 \in AllCurrencies :
      (userAnswer \in Amounts(c1, n)) =>
        \A c2 \in AllCurrencies \ CurrencyOf(c1) :
          (correctAnswer \in Amounts(c2, n)) => result = FALSE

\* C13: two amounts whose numbers are equal after the removal of commas and
\* whose currency indicators (a leading symbol or a trailing word, in any
\* letter case) stand in the same row of the currency table are accepted,
\* whichever of the two is the user answer.
C13_CurrencyEquivalence ==
  (Done /\ SingleAnswer) =>
    \A n1 \in CurrencyNumbers : \A c1 \in AllCurrencies :
      (userAnswer \in Amounts(c1, n1)) =>
        \A n2 \in CurrencyNumbers : \A c2 \in CurrencyOf(c1) :
          (/\ correctAnswer \in Amounts(c2, n2)
           /\ removeCommas(n1) = removeCommas(n2)) => result = TRUE

C13_Witness ==
  /\ Done /\ SingleAnswer
  /\ userAnswer = Str("$50") /\ correctAnswer = Str("50 dollars")
  /\ result = TRUE

\* C14: for every digit N, "double N" is accepted against "NN" and
\* "triple N" against "NNN"; checkAnswer("double 5 5", "5 5 5") and
\* checkAnswer("triple 5", "555") are true.
C14_PhoneDictation ==
  (Done /\ SingleAnswer) =>
    /\ \A d \in Digits :
         /\ (userAnswer = Str("double ") \o <<d>> /\ correctAnswer = <<d, d>>)
              => result = TRUE
         /\ (userAnswer = Str("triple ") \o <<d>> /\ correctAnswer = <<d, d, d>>)
              => result = TRUE
    /\ (userAnswer = Str("double 5 5") /\ correctAnswer = Str("5 5 5"))
         => result = TRUE
    /\ (userAnswer = Str("triple 5") /\ correctAnswer = Str("555"))
         => result = TRUE

\* C15: two times with the same digit sequence that differ only in spacing,
\* in periods or colons, in the spelling of the AM/PM suffix or in a trailing
\* "o'clock" are accepted.
C15_TimeFormats ==
  (Done /\ SingleAnswer) =>
    \A ws \in TimeWritings : \A xs \in TimeSuffixes :
      (userAnswer \in Times(ws, xs) /\ correctAnswer \in Times(ws, xs))
        => result = TRUE

C15_Witness ==
  /\ Done /\ SingleAnswer
  /\ userAnswer = Str("9am") /\ correctAnswer = Str("9 a.m.")
  /\ result = TRUE

\* a prefix or a suffix taken off when it is there
StripLeading(s, p) ==
  IF Len(s) >= Len(p) /\ SubSeq(s, 1, Len(p)) = p
  THEN SubSeq(s, Len(p) + 1, Len(s)) ELSE s
StripTrailing(s, p) ==
  IF Len(s) >= Len(p) /\ SubSeq(s, Len(s) - Len(p) + 1, Len(s)) = p
  THEN SubSeq(s, 1, Len(s) - Len(p)) ELSE s
\* a non-empty user answer and one non-empty canonical answer
OneAlternative ==
  userAnswer # <<>> /\ correctAnswer # <<>> /\ ~HasSlash(correctAnswer)

\* C16: a non-empty answer and one canonical answer are accepted when,
\* normalized, they are equal after a leading "the " is removed from each,
\* or a trailing " the" from each, or both from each, or a leading "a " or
\* "an " from each, whichever of the two is the user answer.
C16_ArticleTolerance ==
  (Done /\ SingleAnswer /\ OneAlternative) =>
    LET user == normalizeString(userAnswer)
        correct == normalizeString(correctAnswer)
        leading(s) == StripLeading(s, Str("the "))
        trailing(s) == StripTrailing(s, Str(" the"))
        article(s) == IF StripLeading(s, Str("a ")) # s
                      THEN StripLeading(s, Str("a "))
                      ELSE StripLeading(s, Str("an "))
    IN  (\/ leading(user) = leading(correct)
         \/ trailing(user) = trailing(correct)
         \/ trailing(leading(user)) = trailing(leading(correct))
         \/ article(user) = article(correct)) => result = TRUE

C16_Witness ==
  /\ Done /\ SingleAnswer
  /\ userAnswer = Str("the beach") /\ correctAnswer = Str("beach")
  /\ result = TRUE

\* C17: a non-empty answer and one canonical answer are accepted when,
\* normalized, one of them is the other followed by "s" or by "es",
\* whichever of the two is the user answer.
C17_PluralTolerance ==
  (Done /\ SingleAnswer /\ OneAlternative) =>
    LET user == normalizeString(userAnswer)
        correct == normalizeString(correctAnswer)
    IN  (\E e \in {Str("s"), Str("es")} :
           user = correct \o e \/ correct = user \o e) => result = TRUE

C17_Witness ==
  /\ Done /\ SingleAnswer
  /\ userAnswer = Str("cats") /\ correctAnswer = Str("cat")
  /\ result = TRUE

\* every hyphen replaced by a space
HyphensToSpaces(s) == [i \in DOMAIN s |-> IF s[i] = "-" THEN " " ELSE s[i]]

\* C18: a non-empty answer and one canonical answer are accepted when,
\* normalized, they are equal after every hyphen of both is replaced by a
\* space, whichever of the two is the user answer.
C18_HyphenSpace ==
  (/\ Done /\ SingleAnswer /\ OneAlternative
   /\ HyphensToSpaces(normalizeString(userAnswer))
        = HyphensToSpaces(normalizeString(correctAnswer))) => result = TRUE

C18_Witness ==
  /\ Done /\ SingleAnswer
  /\ userAnswer = Str("well-known") /\ correctAnswer = Str("well known")
  /\ result = TRUE

\* every curly quote replaced by its straight form
StraightQuotes(s) ==
  [i \in DOMAIN s |-> IF s[i] \in {LSQUO, RSQUO} THEN "'"
                      ELSE IF s[i] \in {LDQUO, RDQUO} THEN "\"" ELSE s[i]]

\* C19: normalization leaves no curly quote in an answer, and two answers
\* that differ only in curly against straight quotes or apostrophes are
\* accepted.
C19_QuoteUnification ==
  (Done /\ SingleAnswer /\ OneAlternative) =>
    /\ normalizeString(userAnswer) = StraightQuotes(normalizeString(userAnswer))
    /\ (StraightQuotes(userAnswer) = StraightQuotes(correctAnswer))
         => result = TRUE

\* C20: with no question type, a user answer made of whitespace only is
\* rejected for every canonical answer, "s", "es", "a//b" and "/" included.
C20_WhitespaceRejected ==
  (Done /\ SingleAnswer /\ \A i \in DOMAIN userAnswer : userAnswer[i] \in WhiteSpace)
    => result = FALSE

MonthSpellings == UNION MONTH_VARIATIONS

\* C21: the date rule does not match two answers of the shape
\* <word> <number> or <number> <word> whose words are no spellings of the
\* month table ("room 5" against "flat 12").
C21_DatesOnly ==
  (Done /\ SingleAnswer) =>
    \A w1, w2 \in DateWords \ MonthSpellings : \A j \in {1, 2} :
      ((\E d \in DateDays, x \in Words(<<" ", " of ">>) :
           userAnswer \in {w1 \o <<" ">> \o d, d \o x \o w1})
       /\ (\E d \in DateDays, x \in Words(<<" ", " of ">>) :
             correctAnswer \in {w2 \o <<" ">> \o d, d \o x \o w2}))
        => ~matchDate(userAnswer, correctAnswer)

RuleCount == 12
RuleResult(i, user, correct) ==
  CASE i = 1 -> RuleExact(user, correct)
    [] i = 2 -> RuleNoSpaces(user, correct)
    [] i = 3 -> matchTime(user, correct)
    [] i = 4 -> matchNumber(user, correct)
    [] i = 5 -> matchMeasurement(user, correct)
    [] i = 6 -> matchCurrency(user, correct)
    [] i = 7 -> matchPhoneNumber(user, correct)
    [] i = 8 -> matchDate(user, correct)
    [] i = 9 -> RuleThe(user, correct)
    [] i = 10 -> RuleArticle(user, correct)
    [] i = 11 -> RulePlural(user, correct)
    [] i = 12 -> RuleHyphen(user, correct)

\* the loops of checkIeltsAnswer run backwards: the last alternative first,
\* and for each alternative the last rule first, with a return at the first
\* rule that holds
RECURSIVE ScanRules(_, _, _)
ScanRules(i, user, correct) ==
  IF i = 0 THEN FALSE
  ELSE IF RuleResult(i, user, correct) THEN TRUE
  ELSE ScanRules(i - 1, user, correct)
RECURSIVE ScanAlternatives(_, _, _)
ScanAlternatives(k, user, alts) ==
  IF k = 0 THEN FALSE
  ELSE IF ScanRules(RuleCount, user, alts[k]) THEN TRUE
  ELSE ScanAlternatives(k - 1, user, alts)

AnyRuleAnyAlternative(userAnswer_, correctAnswers) ==
  LET user == normalizeString(userAnswer_)
      alts == acceptableAnswers(correctAnswers)
  IN  /\ \E k \in DOMAIN alts : \E i \in 1..RuleCount : RuleResult(i, user, alts[k])
      /\ ScanAlternatives(Len(alts), user, alts)

\* C23, as stated: for all inputs, checkIeltsAnswer returns the disjunction,
\* over all alternatives and all rules, of the results of the rules, in
\* whatever order they are evaluated.
C23_RuleOrderAnyInput ==
  (Done /\ SingleAnswer) =>
    result = AnyRuleAnyAlternative(userAnswer, correctAnswer)

\* C23, amended: for all inputs that pass the guard of line 311 (both
\* arguments non-empty), checkIeltsAnswer returns the disjunction, over all
\* alternatives and all rules, of the results of the rules, in whatever
\* order they are evaluated; an empty argument is rejected before any rule.
C23_RuleOrder ==
  (Done /\ SingleAnswer) =>
    IF userAnswer = <<>> \/ correctAnswer = <<>> THEN result = FALSE
    ELSE LET user == normalizeString(userAnswer)
             alts == acceptableAnswers(correctAnswer)
         IN  /\ result = (\E k \in DOMAIN alts : \E i \in 1..RuleCount :
                            RuleResult(i, user, alts[k]))
             /\ result = ScanAlternatives(Len(alts), user, alts)

C23_Witness ==
  /\ Done /\ SingleAnswer
  /\ userAnswer = Str("a b") /\ correctAnswer = Str("b /a-b/")
  /\ result = TRUE

\* the job is in its loop or past it
JobRunning == jobPc \in {"content", "audio", "sample", "insert", "progress", "final", "done"}
\* the tests whose iteration is over
Attempted == IF jobPc = "progress" THEN testIndex + 1 ELSE testIndex
LoggedAt(n) == {k \in DOMAIN errorLog : errorLog[k].index = n}
SavedAt(n) == {k \in DOMAIN generated_test_audio : generated_test_audio[k].index = n}

\* C24: the tests are attempted in the order of their index; after each
\* iteration successCount + failureCount is the number of tests attempted,
\* the error log holds one entry per failure, with the index of the test, and
\* when the job is over the sum is quantity, in the job and in the row that
\* holds the terminal status.
C24_JobCounters ==
  JobRunning =>
    /\ Attempted <= quantity
    /\ successCount + failureCount = Attempted
    /\ Len(errorLog) = failureCount
    /\ \A n \in 0..(quantity - 1) :
         /\ Cardinality(LoggedAt(n)) + Cardinality(SavedAt(n))
              = IF n < Attempted THEN 1 ELSE 0
    /\ \A k \in DOMAIN errorLog : \A l \in DOMAIN errorLog :
         (k < l) => errorLog[k].index < errorLog[l].index
    /\ (jobPc = "done") => successCount + failureCount = quantity
    /\ (job.status \in Terminal) =>
         /\ job.success_count + job.failure_count = quantity
         /\ job.error_log = errorLog

C24_Witness ==
  /\ jobPc = "done" /\ quantity = 3
  /\ successCount = 1 /\ failureCount = 2
  /\ errorLog[1].index = 0 /\ errorLog[2].index = 2
  /\ job.status = "completed"

StatusRank(st) ==
  CASE st = "none" -> 0 [] st = "pending" -> 1 [] st = "processing" -> 2
    [] st \in Terminal -> 3
StatusOrders == {<<"pending", "processing", t>> : t \in Terminal}
IsPrefix(p, q) == Len(p) <= Len(q) /\ p = SubSeq(q, 1, Len(p))

\* C25: the job writes "pending" at its creation, "processing" before the
\* first test, and one terminal status, after all the tests; the status of
\* the row never goes back, and once the terminal status is written the row
\* is written no more.
C25_StatusForward ==
  /\ [](\E order \in StatusOrders : IsPrefix(statusWrites, order))
  /\ [](JobRunning => Len(statusWrites) >= 2)
  /\ []((Len(statusWrites) = 3) => (jobPc = "done" /\ testIndex = quantity))
  /\ [][StatusRank(job'.status) >= StatusRank(job.status)]_vars
  /\ [][(Len(statusWrites) = 3) => (job' = job /\ statusWrites' = statusWrites)]_vars

C25_Witness ==
  /\ jobPc = "done" /\ job.status = "completed"
  /\ statusWrites = <<"pending", "processing", "completed">>
  /\ failureCount = 1

\* C26: every job that was created reaches the status "completed" or
\* "failed", when every call of the job returns.
C26_JobTerminates == (job.status = "pending") ~> (job.status \in Terminal)

\* C27: a row with a terminal status is "failed" exactly when none of the
\* quantity tests succeeded and all failed, and "completed" as soon as one
\* succeeded; its counters are those of the job.
C27_TerminalStatus ==
  (job.status \in Terminal) =>
    /\ (job.status = "failed")
         = (job.success_count = 0 /\ job.failure_count = quantity)
    /\ (job.success_count >= 1) => job.status = "completed"
    /\ job.success_count = Len(generated_test_audio)
    /\ job.success_count = successCount /\ job.failure_count = failureCount
    /\ quantity \in 1..QuantityLimit

C27_Witness ==
  /\ job.status = "failed" /\ quantity = 3
  /\ job.failure_count = 3 /\ generated_test_audio = <<>>

\* C28: in a listening or speaking job every saved row has an audio_url and
\* the status "ready", and a test whose audio failed has no row and one
\* entry in the error log.
C28_AudioOrNothing ==
  (module \in AudioModules) =>
    /\ \A k \in DOMAIN generated_test_audio :
         /\ generated_test_audio[k].audio_url # "null"
         /\ generated_test_audio[k].status = "ready"
    /\ \A k \in DOMAIN errorLog :
         (errorLog[k].error = "Audio generation failed")
           => SavedAt(errorLog[k].index) = {}
    /\ Len(generated_test_audio) = successCount
    /\ (jobPc = "insert") => audioUrl # "null"

C28_Witness ==
  /\ module = "listening" /\ jobPc = "done"
  /\ Len(generated_test_audio) = 1
  /\ \E k \in DOMAIN errorLog : errorLog[k].error = "Audio generation failed"

\* C29: in a speaking job, a test whose content has the shape the speaking
\* prompt asks for, and for which no collaborator failed, is saved and
\* counted as a success.
C29_SpeakingSucceeds ==
  (/\ module = "speaking" /\ jobPc = "progress"
   /\ content = PromptShape("speaking") /\ collaboratorsOk)
    => (SavedAt(testIndex) # {} /\ ~TestFailed)

\* C30: in a cell of two blanks or more, an edit of blank k leaves blank k
\* with the typed text and every other blank with the value it showed
\* before the edit, whatever the typed text.
C30_OtherBlanksUnchanged ==
  [][(blankCount >= 2) =>
       \A j \in 0..(blankCount - 1) :
         ShownValue(storedAnswer', blankCount, j)
           = IF j = editedBlank' THEN editedText'
             ELSE ShownValue(storedAnswer, blankCount, j)]_vars
====
